---- MODULE Spec2Model ----
(***************************************************************************)
(* Appointment scheduling core of the hospital management application:     *)
(* the appointments and treatments tables, the per-doctor availability     *)
(* map, and the request handlers of the patient, doctor and admin          *)
(* blueprints.  Every handler is split at its database accesses: a SELECT  *)
(* reads the committed tables at the moment it runs, db.session.commit()   *)
(* writes them in one step, and other requests may run in between.         *)
(***************************************************************************)
EXTENDS Integers, Sequences, FiniteSets, TLC

\* ------------------------------------------------------------------ bounds
\* Requests served in one behaviour (at most two of them at a time).
MaxRequests == 3

\* range(7) of the availability builders.
HorizonDays == 7

\* ---------------------------------------------------------------- universe
Doctors == {"d1"}
Patients == {"p1"}
Workers == {1, 2}

BOOKED == "Booked"
COMPLETED == "Completed"
CANCELLED == "Cancelled"
AppointmentState == {BOOKED, COMPLETED, CANCELLED}

\* ISO date strings of consecutive calendar days; a date value is its index.
DateStrings ==
  << "2025-06-10", "2025-06-11", "2025-06-12", "2025-06-13",
     "2025-06-14", "2025-06-15", "2025-06-16", "2025-06-17" >>

\* target_date.strftime('%Y-%m-%d')
strftime(d) == DateStrings[d]

\* date.fromisoformat(s)
fromisoformat(s) == CHOOSE d \in 1..Len(DateStrings) : DateStrings[d] = s

\* The hourly "HH:MM" labels the forms offer, 08:00 .. 21:00.
TimeLabels ==
  << "08:00", "09:00", "10:00", "11:00", "12:00", "13:00", "14:00",
     "15:00", "16:00", "17:00", "18:00", "19:00", "20:00", "21:00" >>

\* datetime.strptime(label, '%H:%M').time(), as minutes after midnight.
strptime(label) ==
  60 * (7 + (CHOOSE i \in 1..Len(TimeLabels) : TimeLabels[i] = label))

\* _normalize_date_time_inputs
_normalize_date_time_inputs(appointment_date, appointment_time) ==
  << fromisoformat(appointment_date), strptime(appointment_time) >>

SeqToSet(s) == {s[i] : i \in 1..Len(s)}

\* ------------------------------------------------------------------- state
\* today:        date.today()
\* availability: PhysicianProfile.availability, per doctor
\* appointments: rows of the appointments table
\* treatments:   rows of the treatments table
\* req:          per worker, the request it is serving and its position
\* started:      number of requests received so far
VARIABLES today, availability, appointments, treatments, req, started

vars == << today, availability, appointments, treatments, req, started >>

\* ------------------------------------------------------------- the schema
\* UniqueConstraint('doctor_id', 'date', 'time'): the key has no status.
uq_off(rows) == TRUE

uq_doctor_date_time_booked_slot(rows) ==
  \A a \in rows : \A b \in rows :
    (a.doctor_id = b.doctor_id /\ a.date = b.date /\ a.time = b.time)
      => a.id = b.id

\* SQLite rowid of an INTEGER PRIMARY KEY without AUTOINCREMENT: max + 1.
NextId(rows) ==
  IF rows = {} THEN 1
  ELSE (CHOOSE m \in {r.id : r \in rows} : \A r \in rows : r.id <= m) + 1

HasRow(rows, id) == \E r \in rows : r.id = id
RowOf(rows, id) == CHOOSE r \in rows : r.id = id

NoRow ==
  [id |-> 0, patient_id |-> "-", doctor_id |-> "-", date |-> 0, time |-> 0,
   status |-> "-", notes |-> "-"]

\* ------------------------------------------------------ conflict checker
\* MedicalAppointment.check_time_slot_availability; 0 stands for None.
check_no_status_filter(physician_id, appointment_date, appointment_time, exclude_appointment_id) ==
  ~ \E a \in appointments :
      /\ a.doctor_id = physician_id
      /\ a.date = appointment_date
      /\ a.time = appointment_time
      /\ (exclude_appointment_id # 0 => a.id # exclude_appointment_id)

check_ignores_exclusion(physician_id, appointment_date, appointment_time, exclude_appointment_id) ==
  {a \in appointments :
     /\ a.doctor_id = physician_id
     /\ a.date = appointment_date
     /\ a.time = appointment_time
     /\ a.status = BOOKED} = {}

check_time_slot_availability(physician_id, appointment_date, appointment_time, exclude_appointment_id) ==
  LET query == {a \in appointments :
                  /\ a.doctor_id = physician_id
                  /\ a.date = appointment_date
                  /\ a.time = appointment_time
                  /\ a.status = BOOKED}
      filtered == IF exclude_appointment_id # 0
                  THEN {a \in query : a.id # exclude_appointment_id}
                  ELSE query
  IN  filtered = {}

\* verify_slot_availability: returns is_conflict (the row found is unused).
verify_never_conflict(doctor_id, appointment_date, appointment_time, exclude_appointment_id) ==
  FALSE

verify_slot_availability(doctor_id, appointment_date, appointment_time, exclude_appointment_id) ==
  LET n == _normalize_date_time_inputs(appointment_date, appointment_time)
  IN  ~ check_time_slot_availability(doctor_id, n[1], n[2],
                                     exclude_appointment_id)

\* _validate_doctor_availability: TRUE iff the label is listed under the key.
validate_skipped(doctor, appointment_date, appointment_time) == TRUE

_validate_doctor_availability(doctor, appointment_date, appointment_time) ==
  LET avail == availability[doctor]
  IN  /\ DOMAIN avail # {}
      /\ appointment_date \in DOMAIN avail
      /\ appointment_time \in SeqToSet(avail[appointment_date])

\* ------------------------------------------------------------- lifecycle
\* MedicalAppointment.validate_status_transition: <<allowed, has reason>>.
transition_all_allowed(current_status, target_status) == << TRUE, FALSE >>

validate_status_transition(current_status, target_status) ==
  IF current_status = target_status THEN << TRUE, FALSE >>
  ELSE IF current_status = BOOKED
       THEN IF target_status \in {COMPLETED, CANCELLED}
            THEN << TRUE, FALSE >> ELSE << FALSE, TRUE >>
  ELSE IF current_status \in {COMPLETED, CANCELLED}
       THEN IF target_status = BOOKED
            THEN << FALSE, TRUE >> ELSE << TRUE, FALSE >>
  ELSE << TRUE, FALSE >>

\* -------------------------------------------------------- availability
\* _generate_default_availability_schedule (the seed builds the same map).
default_schedule_from_tomorrow ==
  [k \in {strftime(today + o) : o \in 1..(HorizonDays - 1)} |->
     << "09:00", "10:00", "14:00", "15:00" >>]

_generate_default_availability_schedule ==
  [k \in {strftime(today + o) : o \in 0..(HorizonDays - 1)} |->
     << "09:00", "10:00", "14:00", "15:00" >>]

\* ---------------------------------------------------------------- requests
Idle ==
  [kind |-> "idle", pc |-> "idle", out |-> "-", caller |-> "-", id |-> 0,
   doctor |-> "-", date |-> "-", time |-> "-", notes |-> "-",
   target |-> "-", diagnosis |-> "-", form |-> << >>, snap |-> NoRow,
   seen |-> << >>]

\* A response touches no table, so it is delivered before anything else runs.
Quiet == \A w \in Workers : req[w].pc # "done"

\* A request is taken by the first free worker.
Ready(w) ==
  /\ Quiet
  /\ req[w].pc = "idle"
  /\ \A v \in Workers : req[v].pc = "idle" => ~ (v < w)
  /\ started < MaxRequests

At(w, kinds, pc) == Quiet /\ req[w].kind \in kinds /\ req[w].pc = pc

\* The handler has decided its response.
Finish(w, outcome) == [req EXCEPT ![w].pc = "done", ![w].out = outcome]

\* The columns of a loaded row that the rest of the handler reads.
Loaded(a, cols) ==
  [c \in DOMAIN NoRow |-> IF c \in cols THEN a[c] ELSE NoRow[c]]

Init ==
  /\ today = 1
  /\ availability = [d \in Doctors |-> _generate_default_availability_schedule]
  /\ appointments = {}
  /\ treatments = {}
  /\ req = [w \in Workers |-> Idle]
  /\ started = 0


\* ------------------------------------------------- patient: create_appointment
\* Arrival of a booking request (GET with pre-selected parameters, or the
\* form POST) up to and including _validate_doctor_availability.
create_appointment_validate(w, method, patient, doctor, ds, ts, notes) ==
  /\ Ready(w)
  /\ LET r == [Idle EXCEPT !.pc = "done",
                           !.kind = IF method = "GET" THEN "create_get"
                                    ELSE "create_post",
                           !.caller = patient, !.doctor = doctor,
                           !.date = ds, !.time = ts,
                           !.notes = IF method = "GET" THEN "" ELSE notes]
     IN  req' = [req EXCEPT ![w] =
                   IF _validate_doctor_availability(doctor, ds, ts)
                   THEN [r EXCEPT !.pc = "check"]
                   ELSE [r EXCEPT !.out = "not_declared"]]
  /\ started' = started + 1
  /\ UNCHANGED << today, availability, appointments, treatments >>

\* verify_slot_availability(doctor.id, date, time)
create_appointment_check(w) ==
  /\ At(w, {"create_get", "create_post"}, "check")
  /\ req' = IF verify_slot_availability(req[w].doctor, req[w].date,
                                        req[w].time, 0)
            THEN Finish(w, "slot_taken")
            ELSE [req EXCEPT ![w].pc = "commit"]
  /\ UNCHANGED << today, availability, appointments, treatments, started >>

\* db.session.add(appointment); db.session.commit().  Only the POST branch
\* wraps the commit in try/except.
create_appointment_commit(w) ==
  /\ At(w, {"create_get", "create_post"}, "commit")
  /\ LET row == [id |-> NextId(appointments),
                 patient_id |-> req[w].caller,
                 doctor_id |-> req[w].doctor,
                 date |-> fromisoformat(req[w].date),
                 time |-> strptime(req[w].time),
                 status |-> BOOKED,
                 notes |-> req[w].notes]
         new == appointments \cup {row}
     IN  IF uq_doctor_date_time_booked_slot(new)
         THEN /\ appointments' = new
              /\ req' = Finish(w, "booked")
         ELSE /\ appointments' = appointments
              /\ req' = Finish(w, IF req[w].kind = "create_post"
                                  THEN "commit_error" ELSE "unhandled")
  /\ UNCHANGED << today, availability, treatments, started >>

\* --------------------------------------- patient: reschedule_client_appointment
\* Appointment.query.get_or_404(id), ownership and status checks.
reschedule_client_appointment_load(w, patient, id, ds, ts) ==
  /\ Ready(w)
  /\ HasRow(appointments, id)
  /\ LET a == RowOf(appointments, id)
         r == [Idle EXCEPT !.pc = "done", !.kind = "reschedule",
                           !.caller = patient, !.id = id,
                           !.date = ds, !.time = ts]
     IN  req' = [req EXCEPT ![w] =
                   IF a.patient_id # patient
                   THEN [r EXCEPT !.out = "denied"]
                   ELSE IF a.status # BOOKED
                   THEN [r EXCEPT !.out = "invalid_state"]
                   ELSE [r EXCEPT !.pc = "validate",
                                  !.doctor = a.doctor_id,
                                  !.snap = Loaded(a, {"id", "doctor_id",
                                                      "date", "time"})]]
  /\ started' = started + 1
  /\ UNCHANGED << today, availability, appointments, treatments >>

\* doctor = appointment.doctor; _validate_doctor_availability(doctor, ...)
reschedule_client_appointment_validate(w) ==
  /\ At(w, {"reschedule"}, "validate")
  /\ req' = IF _validate_doctor_availability(req[w].doctor, req[w].date,
                                             req[w].time)
            THEN [req EXCEPT ![w].pc = "check"]
            ELSE Finish(w, "not_declared")
  /\ UNCHANGED << today, availability, appointments, treatments, started >>

\* verify_slot_availability(..., exclude_appointment_id=appointment.id)
reschedule_client_appointment_check(w) ==
  /\ At(w, {"reschedule"}, "check")
  /\ req' = IF verify_slot_availability(req[w].snap.doctor_id, req[w].date,
                                        req[w].time, req[w].snap.id)
            THEN Finish(w, "slot_taken")
            ELSE [req EXCEPT ![w].pc = "commit"]
  /\ UNCHANGED << today, availability, appointments, treatments, started >>

\* appointment.date = ...; appointment.time = ...: the columns written.
reschedule_writes_every_column(a, set_date, new_date, set_time, new_time) ==
  [a EXCEPT !.date = new_date, !.time = new_time, !.status = BOOKED]

reschedule_assign(a, set_date, new_date, set_time, new_time) ==
  [a EXCEPT !.date = IF set_date THEN new_date ELSE @,
            !.time = IF set_time THEN new_time ELSE @]

\* appointment.date = ...; appointment.time = ...; db.session.commit().
\* The UPDATE carries only the columns whose value differs from the loaded
\* one and addresses the row by id; no row matched raises StaleDataError,
\* a uniqueness violation raises IntegrityError, and neither is caught.
reschedule_client_appointment_commit(w) ==
  /\ At(w, {"reschedule"}, "commit")
  /\ LET new_date == fromisoformat(req[w].date)
         new_time == strptime(req[w].time)
         set_date == new_date # req[w].snap.date
         set_time == new_time # req[w].snap.time
     IN  IF ~ set_date /\ ~ set_time
         THEN /\ appointments' = appointments
              /\ req' = Finish(w, "rescheduled")
         ELSE IF ~ HasRow(appointments, req[w].id)
         THEN /\ appointments' = appointments
              /\ req' = Finish(w, "unhandled")
         ELSE LET a == RowOf(appointments, req[w].id)
                  b == reschedule_assign(a, set_date, new_date,
                                         set_time, new_time)
                  new == (appointments \ {a}) \cup {b}
              IN  IF uq_doctor_date_time_booked_slot(new)
                  THEN /\ appointments' = new
                       /\ req' = Finish(w, "rescheduled")
                  ELSE /\ appointments' = appointments
                       /\ req' = Finish(w, "unhandled")
  /\ UNCHANGED << today, availability, treatments, started >>


\* ------------------------------------------------------ cancel (both sides)
\* if appointment.status != AppointmentStatus.BOOKED: refuse
cancel_any_status(a) == TRUE

cancel_requires_booked(a) == a.status = BOOKED

\* cancel_client_appointment / cancel_physician_appointment up to the
\* lifecycle check; owner is the row's column compared with current_user.id.
cancel_load(w, kind, caller, id) ==
  /\ Ready(w)
  /\ HasRow(appointments, id)
  /\ LET a == RowOf(appointments, id)
         owner == IF kind = "cancel_client" THEN a.patient_id
                  ELSE a.doctor_id
         r == [Idle EXCEPT !.pc = "done", !.kind = kind, !.caller = caller, !.id = id,
                           !.target = CANCELLED]
     IN  req' = [req EXCEPT ![w] =
                   IF owner # caller
                   THEN [r EXCEPT !.out = "denied"]
                   ELSE IF ~ cancel_requires_booked(a)
                   THEN [r EXCEPT !.out = "invalid_state"]
                   ELSE IF ~ validate_status_transition(a.status, CANCELLED)[1]
                   THEN [r EXCEPT !.out = "invalid_state"]
                   ELSE [r EXCEPT !.pc = "commit",
                                  !.snap = Loaded(a, {"id"})]]
  /\ started' = started + 1
  /\ UNCHANGED << today, availability, appointments, treatments >>

\* patient blueprint
cancel_client_appointment_load(w, patient, id) ==
  cancel_load(w, "cancel_client", patient, id)

\* doctor blueprint
cancel_physician_appointment_load(w, doctor, id) ==
  cancel_load(w, "cancel_physician", doctor, id)

\* appointment.status = CANCELLED; db.session.commit()
cancel_commit(w) ==
  /\ At(w, {"cancel_client", "cancel_physician"}, "commit")
  /\ IF ~ HasRow(appointments, req[w].id)
     THEN /\ appointments' = appointments
          /\ req' = Finish(w, "unhandled")
     ELSE LET a == RowOf(appointments, req[w].id)
          IN  /\ appointments' =
                   (appointments \ {a}) \cup {[a EXCEPT !.status = CANCELLED]}
              /\ req' = Finish(w, "cancelled")
  /\ UNCHANGED << today, availability, treatments, started >>

\* ------------------------------------------- doctor: mark_appointment_completed
\* str.strip() on the submitted diagnosis
strip_skipped(text) == text

strip(text) == IF text = " " THEN "" ELSE text

\* POST of the completion form up to the lifecycle check.
mark_appointment_completed_load(w, doctor, id, raw_diagnosis) ==
  /\ Ready(w)
  /\ HasRow(appointments, id)
  /\ LET a == RowOf(appointments, id)
         r == [Idle EXCEPT !.pc = "done", !.kind = "complete", !.caller = doctor, !.id = id,
                           !.target = COMPLETED,
                           !.diagnosis = strip(raw_diagnosis)]
     IN  req' = [req EXCEPT ![w] =
                   IF a.doctor_id # doctor
                   THEN [r EXCEPT !.out = "denied"]
                   ELSE IF a.status # BOOKED
                   THEN [r EXCEPT !.out = "invalid_state"]
                   ELSE IF r.diagnosis = ""
                   THEN [r EXCEPT !.out = "validation"]
                   ELSE IF ~ validate_status_transition(a.status, COMPLETED)[1]
                   THEN [r EXCEPT !.out = "invalid_state"]
                   ELSE [r EXCEPT !.pc = "commit",
                                  !.snap = Loaded(a, {"id"})]]
  /\ started' = started + 1
  /\ UNCHANGED << today, availability, appointments, treatments >>

\* _create_or_update_treatment_record: the row found by appointment_id is
\* updated in place, otherwise a new row is added (its id is the next rowid).
treatment_not_written(rows, appointment_id, diagnosis) == rows

treatment_always_inserted(rows, appointment_id, diagnosis) ==
  rows \cup {[id |-> NextId(rows), appointment_id |-> appointment_id,
              visit_type |-> "In-person", diagnosis |-> diagnosis]}

_create_or_update_treatment_record(rows, appointment_id, diagnosis) ==
  LET treatment == {t \in rows : t.appointment_id = appointment_id}
  IN  IF treatment = {}
      THEN rows \cup {[id |-> NextId(rows), appointment_id |-> appointment_id,
                       visit_type |-> "In-person", diagnosis |-> diagnosis]}
      ELSE (rows \ treatment)
             \cup {[t EXCEPT !.visit_type = "In-person",
                             !.diagnosis = diagnosis] : t \in treatment}

\* appointment.status = COMPLETED; the treatment query autoflushes the
\* UPDATE, so from there to the commit the request holds the write lock.
mark_appointment_completed_commit(w) ==
  /\ At(w, {"complete"}, "commit")
  /\ IF ~ HasRow(appointments, req[w].id)
     THEN /\ UNCHANGED << appointments, treatments >>
          /\ req' = Finish(w, "unhandled")
     ELSE LET a == RowOf(appointments, req[w].id)
          IN  /\ appointments' =
                   (appointments \ {a}) \cup {[a EXCEPT !.status = COMPLETED]}
              /\ treatments' = _create_or_update_treatment_record(
                                 treatments, req[w].id, req[w].diagnosis)
              /\ req' = Finish(w, "completed")
  /\ UNCHANGED << today, availability, started >>


\* --------------------------------------------- admin: modify_appointment_status
\* get_or_404, the valid_statuses test and can_transition_to, whose verdict
\* only selects the flashed message.
modify_appointment_status_load(w, id, new_status_string) ==
  /\ Ready(w)
  /\ HasRow(appointments, id)
  /\ LET a == RowOf(appointments, id)
         r == [Idle EXCEPT !.pc = "done", !.kind = "modify_status", !.caller = "admin",
                           !.id = id, !.target = new_status_string]
     IN  req' = [req EXCEPT ![w] =
                   IF new_status_string \notin {"Booked", "Completed",
                                                "Cancelled"}
                   THEN [r EXCEPT !.out = "invalid_status"]
                   ELSE [r EXCEPT !.pc = "commit",
                                  !.snap = Loaded(a, {"id", "status"}),
                                  !.out = IF validate_status_transition(
                                               a.status, new_status_string)[1]
                                          THEN "success" ELSE "warning"]]
  /\ started' = started + 1
  /\ UNCHANGED << today, availability, appointments, treatments >>

\* appointment.status = new_status, assigned whatever can_transition_to said.
status_kept_when_refused(a, can_transition, new_status) ==
  IF can_transition THEN [a EXCEPT !.status = new_status] ELSE a

modify_status_assign(a, can_transition, new_status) ==
  [a EXCEPT !.status = new_status]

\* appointment.status = new_status; db.session.commit().  An unchanged
\* attribute emits no UPDATE.
modify_appointment_status_commit(w) ==
  /\ At(w, {"modify_status"}, "commit")
  /\ IF req[w].target = req[w].snap.status
     THEN /\ appointments' = appointments
          /\ req' = Finish(w, req[w].out)
     ELSE IF ~ HasRow(appointments, req[w].id)
     THEN /\ appointments' = appointments
          /\ req' = Finish(w, "unhandled")
     ELSE LET a == RowOf(appointments, req[w].id)
          IN  /\ appointments' =
                   (appointments \ {a})
                     \cup {modify_status_assign(a, req[w].out = "success",
                                                req[w].target)}
              /\ req' = Finish(w, req[w].out)
  /\ UNCHANGED << today, availability, treatments, started >>

\* ------------------------------------------------------ admin: remove_appointment
\* get_or_404 and the permanent-record guard.
remove_appointment_load(w, id) ==
  /\ Ready(w)
  /\ HasRow(appointments, id)
  /\ LET a == RowOf(appointments, id)
         r == [Idle EXCEPT !.pc = "done", !.kind = "remove", !.caller = "admin", !.id = id]
     IN  req' = [req EXCEPT ![w] =
                   IF a.status = COMPLETED
                   THEN [r EXCEPT !.out = "delete_refused"]
                   ELSE [r EXCEPT !.pc = "delete",
                                  !.snap = Loaded(a, {"id"})]]
  /\ started' = started + 1
  /\ UNCHANGED << today, availability, appointments, treatments >>

\* db.session.delete(appointment): the delete cascade loads treatment_record.
remove_appointment_delete(w) ==
  /\ At(w, {"remove"}, "delete")
  /\ req' = [req EXCEPT ![w].pc = "commit",
                        ![w].seen = {t \in treatments :
                                       t.appointment_id = req[w].id}]
  /\ UNCHANGED << today, availability, appointments, treatments, started >>

\* db.session.commit(): DELETE of the loaded treatment and of the row, by id.
remove_appointment_commit(w) ==
  /\ At(w, {"remove"}, "commit")
  /\ appointments' = {a \in appointments : a.id # req[w].id}
  /\ treatments' = {t \in treatments :
                      t.id \notin {s.id : s \in req[w].seen}}
  /\ req' = Finish(w, "deleted")
  /\ UNCHANGED << today, availability, started >>

\* ------------------------------------------ admin: manage_physician_availability
\* Position of label in the ascending order of str: for "HH:MM" labels the
\* lexicographic order is the order of TimeLabels.
LabelRank(label) == CHOOSE i \in 1..Len(TimeLabels) : TimeLabels[i] = label

RECURSIVE sorted(_)
\* sorted(time_slots)
sorted(s) ==
  IF Len(s) <= 1 THEN s
  ELSE LET m == CHOOSE i \in 1..Len(s) :
                  \A j \in 1..Len(s) : LabelRank(s[i]) <= LabelRank(s[j])
           rest == [k \in 1..(Len(s) - 1) |-> IF k < m THEN s[k] ELSE s[k + 1]]
       IN  << s[m] >> \o sorted(rest)

\* admin _extract_availability_from_form: form maps a day offset to the
\* submitted getlist of 'slots_<date>'.
admin_extract_unsorted(form) ==
  [k \in {strftime(today + o) : o \in 0..(HorizonDays - 1)} |->
     form[fromisoformat(k) - today]]

admin_extract_availability_from_form(form) ==
  [k \in {strftime(today + o) : o \in 0..(HorizonDays - 1)} |->
     LET time_slots == form[fromisoformat(k) - today]
     IN  IF time_slots # << >> THEN sorted(time_slots) ELSE << >>]

\* User.query.get_or_404(doctor_id) with its profile, and the form.
manage_physician_availability_load(w, doctor, form) ==
  /\ Ready(w)
  /\ req' = [req EXCEPT ![w] =
               [Idle EXCEPT !.kind = "set_availability", !.caller = "admin",
                            !.doctor = doctor, !.pc = "commit",
                            !.form = admin_extract_availability_from_form(form),
                            !.seen = availability[doctor]]]
  /\ started' = started + 1
  /\ UNCHANGED << today, availability, appointments, treatments >>

\* physician_profile.availability = availability_data; db.session.commit().
\* A value equal to the loaded one emits no UPDATE.  Only the profile row is
\* written.
availability_commit_cancels_removed(w) ==
  /\ At(w, {"set_availability"}, "commit")
  /\ availability' = [availability EXCEPT ![req[w].doctor] = req[w].form]
  /\ appointments' =
       {IF /\ a.doctor_id = req[w].doctor
           /\ a.status = BOOKED
           /\ \/ strftime(a.date) \notin DOMAIN req[w].form
              \/ \A i \in 1..Len(req[w].form[strftime(a.date)]) :
                   strptime(req[w].form[strftime(a.date)][i]) # a.time
        THEN [a EXCEPT !.status = CANCELLED] ELSE a : a \in appointments}
  /\ req' = Finish(w, "saved")
  /\ UNCHANGED << today, treatments, started >>

manage_physician_availability_commit(w) ==
  /\ At(w, {"set_availability"}, "commit")
  /\ availability' = IF req[w].form = req[w].seen THEN availability
                     ELSE [availability EXCEPT ![req[w].doctor] = req[w].form]
  /\ req' = Finish(w, "saved")
  /\ UNCHANGED << today, appointments, treatments, started >>

\* The handler returns (redirect, rendered page or error page).
respond(w) ==
  /\ req[w].pc = "done"
  /\ req' = [req EXCEPT ![w] = Idle]
  /\ UNCHANGED << today, availability, appointments, treatments, started >>

\* ------------------------------------------------------------------ inputs
RequestDates == {strftime(today), strftime(today + 1)}
RequestTimes == {"09:00", "10:00"}
\* The (date, time) pairs submitted: the same day at two times, and the next
\* day, so that a Reschedule may change the time only, the date only, or both.
RequestSlots ==
  {<< strftime(today), "09:00" >>, << strftime(today), "10:00" >>,
   << strftime(today + 1), "09:00" >>}
\* request.form.get('notes', ''): the optional field left empty.
PostNotes == {""}
DiagnosisInputs == {"", " ", "Flu"}
StatusInputs == {"Booked", "Completed", "Cancelled", "Pending"}
AppointmentIds == 1..MaxRequests
AdminForms ==
  { [o \in 0..(HorizonDays - 1) |-> << >>],
    [o \in 0..(HorizonDays - 1) |->
       IF o = 0 THEN << "10:00" >>
       ELSE IF o = 1 THEN << "10:00", "09:00" >> ELSE << >>] }

Next ==
  \E w \in Workers :
    \/ \E m \in {"GET", "POST"}, p \in Patients, d \in Doctors,
          sl \in RequestSlots, n \in PostNotes :
         create_appointment_validate(w, m, p, d, sl[1], sl[2], n)
    \/ create_appointment_check(w)
    \/ create_appointment_commit(w)
    \/ \E p \in Patients, id \in AppointmentIds,
          sl \in RequestSlots :
         reschedule_client_appointment_load(w, p, id, sl[1], sl[2])
    \/ reschedule_client_appointment_validate(w)
    \/ reschedule_client_appointment_check(w)
    \/ reschedule_client_appointment_commit(w)
    \/ \E p \in Patients, id \in AppointmentIds :
         cancel_client_appointment_load(w, p, id)
    \/ \E d \in Doctors, id \in AppointmentIds :
         cancel_physician_appointment_load(w, d, id)
    \/ cancel_commit(w)
    \/ \E d \in Doctors, id \in AppointmentIds, g \in DiagnosisInputs :
         mark_appointment_completed_load(w, d, id, g)
    \/ mark_appointment_completed_commit(w)
    \/ \E id \in AppointmentIds, s \in StatusInputs :
         modify_appointment_status_load(w, id, s)
    \/ modify_appointment_status_commit(w)
    \/ \E id \in AppointmentIds : remove_appointment_load(w, id)
    \/ remove_appointment_delete(w)
    \/ remove_appointment_commit(w)
    \/ \E d \in Doctors, f \in AdminForms :
         manage_physician_availability_load(w, d, f)
    \/ manage_physician_availability_commit(w)
    \/ respond(w)

Spec == Init /\ [][Next]_vars


\* ============================================================== properties
\* The contract's predicates, stated independently of the handlers' code.
isSlotFree(rows, providerId, date, time, excludeAppointmentId) ==
  \A a \in rows :
    ~ (/\ a.doctor_id = providerId /\ a.date = date /\ a.time = time
       /\ a.status = BOOKED /\ a.id # excludeAppointmentId)

isDeclaredAvailable(providerId, dateKey, timeLabel) ==
  /\ dateKey \in DOMAIN availability[providerId]
  /\ \E i \in 1..Len(availability[providerId][dateKey]) :
       availability[providerId][dateKey][i] = timeLabel

Creates == {"create_get", "create_post"}
Cancels == {"cancel_client", "cancel_physician"}

\* The row a parsed booking request asks for.
TargetDate(r) == fromisoformat(r.date)
TargetTime(r) == strptime(r.time)

AtTarget(a, r) ==
  a.doctor_id = r.doctor /\ a.date = TargetDate(r) /\ a.time = TargetTime(r)

\* C1. Exclusivity: in every reachable state, whatever the interleaving of
\* Create, Reschedule, Cancel, Complete, the administrative status update and
\* the administrative delete, no two distinct appointments with the same
\* (doctor, date, time) are both Booked.
C1_Exclusivity ==
  \A a \in appointments : \A b \in appointments :
    (/\ a.status = BOOKED /\ b.status = BOOKED
     /\ a.doctor_id = b.doctor_id /\ a.date = b.date /\ a.time = b.time)
      => a.id = b.id

\* A booking that passed both checks lost at the commit to a Booked row that
\* took its slot in the meantime.
C1_Witness ==
  \E w \in Workers :
    /\ req[w].kind \in Creates
    /\ req[w].pc = "done"
    /\ req[w].out \in {"commit_error", "unhandled"}
    /\ \E a \in appointments : a.status = BOOKED /\ AtTarget(a, req[w])

\* C2. Concurrent booking race: when the only two requests of a behaviour are
\* Creates for the same slot and both passed the slot check, the one that
\* loses at the commit ends with a reported failure, on the GET path as on
\* the POST path, and exactly one appointment was inserted.
C2_ConcurrentBookingRace ==
  \A w \in Workers :
    (/\ started = 2
     /\ req[w].kind \in Creates
     /\ req[w].pc = "done"
     /\ req[w].out \notin {"booked", "not_declared", "slot_taken"})
      => /\ req[w].out = "commit_error"
         /\ Cardinality(appointments) = 1

\* C3. A Reschedule that ends while another Booked appointment holds its
\* target slot has failed with the slot-unavailable outcome (never with an
\* unhandled storage error, never with success).
C3_LosingRescheduleReported ==
  \A w \in Workers :
    (/\ req[w].kind = "reschedule"
     /\ req[w].pc = "done"
     /\ req[w].out \notin {"denied", "invalid_state", "not_declared"}
     /\ \E b \in appointments :
          b.id # req[w].id /\ b.status = BOOKED /\ AtTarget(b, req[w]))
      => req[w].out = "slot_taken"

\* C4. Both checks guard every booking: a Create or Reschedule passes its
\* availability step only if the slot is declared in the map read at that
\* step, passes its conflict step only if no other Booked appointment holds
\* the slot at that step, succeeds only from the commit that follows both,
\* and a request whose slot is not declared ends rejected with the
\* appointments untouched.
C4_BothChecks ==
  [][\A w \in Workers :
       LET r == req[w]
           n == req'[w]
           x == IF n.kind = "reschedule" THEN n.id ELSE 0
       IN  (n.kind \in Creates \cup {"reschedule"} /\ n # r) =>
             /\ (n.pc = "check")
                  => isDeclaredAvailable(n.doctor, n.date, n.time)
             /\ (n.pc = "commit")
                  => /\ r.pc = "check"
                     /\ isSlotFree(appointments, n.doctor, TargetDate(n),
                                   TargetTime(n), x)
             /\ (n.pc = "done" /\ n.out \in {"booked", "rescheduled"})
                  => r.pc = "commit"
             /\ (appointments' # appointments) => r.pc = "commit"
             /\ (/\ r.pc \in {"idle", "validate"}
                 /\ n.pc \notin {"validate"}
                 /\ ~ (n.pc = "done" /\ n.out \in {"denied", "invalid_state"})
                 /\ ~ isDeclaredAvailable(n.doctor, n.date, n.time))
                  => /\ n.pc = "done" /\ n.out = "not_declared"
                     /\ appointments' = appointments]_vars

\* A booking is refused because the administrator removed its slot from the
\* doctor's availability.
C4_Witness ==
  \E w \in Workers :
    /\ req[w].kind \in Creates
    /\ req[w].pc = "done"
    /\ req[w].out = "not_declared"
    /\ availability[req[w].doctor] # _generate_default_availability_schedule


\* C5. The conflict checker returns true exactly when no appointment with
\* that doctor, date and time is Booked under an id other than the excluded
\* one, for every doctor, slot and exclusion (none, or any id); Completed and
\* Cancelled rows at the slot never make it return false.  The route-level
\* wrapper, which parses the submitted strings first, reports a conflict
\* exactly when the checker returns false.
C5_IsSlotFree ==
  \A d \in Doctors : \A ds \in RequestDates : \A ts \in RequestTimes :
    \A x \in 0..MaxRequests :
      LET on == fromisoformat(ds)
          at == strptime(ts)
          free == isSlotFree(appointments, d, on, at, x)
      IN  /\ check_time_slot_availability(d, on, at, x) = free
          /\ verify_slot_availability(d, ds, ts, x) = ~ free

\* A slot holds only a Cancelled or Completed row and the checker, consulted
\* by a booking request for that slot, let the request through.
C5_Witness ==
  \E w \in Workers :
    /\ req[w].kind \in Creates
    /\ req[w].pc = "commit"
    /\ \E a \in appointments :
         AtTarget(a, req[w]) /\ a.status \in {COMPLETED, CANCELLED}
    /\ check_time_slot_availability(req[w].doctor, TargetDate(req[w]),
                                    TargetTime(req[w]), 0)

\* C6. No time-travel: no step of any behaviour, the administrative status
\* update included, changes an existing appointment's status from Completed
\* or Cancelled to Booked.
C6_NoTimeTravel ==
  [][\A a \in appointments : \A b \in appointments' :
       (a.id = b.id /\ a.status \in {COMPLETED, CANCELLED})
         => b.status # BOOKED]_vars

\* The transition table of the lifecycle: <<current, target>> pairs refused.
TransitionTableRefused == {<< COMPLETED, BOOKED >>, << CANCELLED, BOOKED >>}

\* C7. The lifecycle checker agrees with the transition table on all nine
\* pairs: refused with a reason exactly for Completed->Booked and
\* Cancelled->Booked, allowed without a reason otherwise; an administrative
\* status update in flight carries the warning exactly when the pair it
\* loaded is a refused one; and the step of a cancel, a completion or an
\* administrative update that consults the checker changes no appointment.
C7_CanTransition ==
  /\ [](/\ \A c \in AppointmentState : \A t \in AppointmentState :
            validate_status_transition(c, t) =
              IF << c, t >> \in TransitionTableRefused
              THEN << FALSE, TRUE >> ELSE << TRUE, FALSE >>
        /\ \A w \in Workers :
            (req[w].kind = "modify_status" /\ req[w].pc = "commit")
              => (req[w].out = "warning"
                    <=> << req[w].snap.status, req[w].target >>
                          \in TransitionTableRefused))
  /\ [][\A w \in Workers :
         (/\ req[w].pc = "idle"
          /\ req'[w].kind \in Cancels \cup {"complete", "modify_status"})
           => appointments' = appointments]_vars

\* The checker was consulted on a refused pair by the administrative update.
C7_Witness ==
  \E w \in Workers :
    /\ req[w].kind = "modify_status"
    /\ req[w].pc = "commit"
    /\ req[w].out = "warning"
    /\ req[w].snap.status = CANCELLED

\* C8. Completed and Cancelled appointments do not occupy the slot: a Create
\* that passed both checks fails at its commit only if a Booked appointment
\* holds the slot, so a slot whose rows are all Cancelled or Completed can be
\* booked again.
C8_TerminalRowsDoNotOccupy ==
  \A w \in Workers :
    (/\ req[w].kind \in Creates
     /\ req[w].pc = "done"
     /\ req[w].out \in {"commit_error", "unhandled"})
      => \E a \in appointments : a.status = BOOKED /\ AtTarget(a, req[w])


\* C9. Cancel, by the patient or by the doctor: a request by the owner that
\* finds the appointment not Booked ends with invalid_state; a request that
\* does not end with success leaves every appointment unchanged; a successful
\* one changes the status of that appointment to Cancelled and nothing else
\* (no other column, no other appointment, no treatment, no availability),
\* and right after it the slot of the appointment is free.
C9_Cancel ==
  [][\A w \in Workers :
       LET r == req[w]
           n == req'[w]
       IN  /\ (r.pc = "idle" /\ n.kind \in Cancels) =>
                LET a == RowOf(appointments, n.id)
                    owner == IF n.kind = "cancel_client" THEN a.patient_id
                             ELSE a.doctor_id
                IN  owner = n.caller =>
                      IF a.status = BOOKED THEN n.pc = "commit"
                      ELSE n.pc = "done" /\ n.out = "invalid_state"
           /\ (n.kind \in Cancels /\ n # r /\ n.out # "cancelled") =>
                appointments' = appointments /\ treatments' = treatments
           /\ (n.kind \in Cancels /\ n # r /\ n.out = "cancelled") =>
                /\ r.pc = "commit"
                /\ HasRow(appointments, r.id)
                /\ LET a == RowOf(appointments, r.id)
                   IN  /\ appointments' =
                            (appointments \ {a})
                              \cup {[a EXCEPT !.status = CANCELLED]}
                       /\ isSlotFree(appointments', a.doctor_id, a.date,
                                     a.time, 0)
                /\ treatments' = treatments
                /\ availability' = availability]_vars

\* A cancel has succeeded on an appointment and one was refused on an
\* appointment that was not Booked.
C9_Witness ==
  \E w \in Workers :
    /\ req[w].kind \in Cancels
    /\ req[w].pc = "done"
    /\ req[w].out = "invalid_state"
    /\ \E a \in appointments : a.id = req[w].id /\ a.status = CANCELLED

\* What a successful Reschedule may change, the claim about the prior slot
\* left as a parameter: always (the claim as stated) or only when the
\* appointment really moved.
ReschedulePreserves(prior_slot_always_free) ==
  \A w \in Workers :
    LET r == req[w]
        n == req'[w]
    IN  (n.kind = "reschedule" /\ n # r /\ n.out = "rescheduled") =>
          /\ r.pc = "commit"
          /\ treatments' = treatments
          /\ availability' = availability
          /\ IF ~ HasRow(appointments, r.id)
             THEN appointments' = appointments
             ELSE LET a == RowOf(appointments, r.id)
                  IN  /\ HasRow(appointments', r.id)
                      /\ LET b == RowOf(appointments', r.id)
                         IN  /\ appointments' \ {b} = appointments \ {a}
                             /\ b = [a EXCEPT !.date = b.date,
                                              !.time = b.time]
                             /\ (prior_slot_always_free
                                 \/ << a.date, a.time >>
                                      # << b.date, b.time >>)
                                  => isSlotFree(appointments', a.doctor_id,
                                                a.date, a.time, 0)

\* C10, as stated. A successful Reschedule of X changes only X's date and
\* time (id, patient, doctor, status and notes stay, no other appointment,
\* treatment or availability changes) and X's prior slot is free right after.
C10_ReschedulePreservesIdentity == [][ReschedulePreserves(TRUE)]_vars

\* C10, amended. The same, with the prior slot free right after whenever
\* the Reschedule gave X a (date, time) other than the one it had.
C10_ReschedulePreservesIdentity_amended == [][ReschedulePreserves(FALSE)]_vars

\* A Reschedule has moved a Booked appointment to another slot.
C10_Witness ==
  \E w \in Workers :
    /\ req[w].kind = "reschedule"
    /\ req[w].pc = "done"
    /\ req[w].out = "rescheduled"
    /\ << req[w].snap.date, req[w].snap.time >>
         # << TargetDate(req[w]), TargetTime(req[w]) >>
    /\ \E a \in appointments :
         a.id = req[w].id /\ AtTarget(a, req[w]) /\ a.status = BOOKED
    /\ isSlotFree(appointments, req[w].snap.doctor_id, req[w].snap.date,
                  req[w].snap.time, 0)

\* C11. Date and time change only while the status is Booked: in no step of
\* any behaviour, a Reschedule racing with a Cancel or a Complete of the same
\* appointment included, does a stored appointment whose status is Completed
\* or Cancelled get another date or time.
C11_MutableOnlyWhileBooked ==
  [][\A a \in appointments : \A b \in appointments' :
       (a.id = b.id /\ a.status \in {COMPLETED, CANCELLED})
         => (b.date = a.date /\ b.time = a.time)]_vars

\* C12. Complete is atomic: a step of a completion request that ends in
\* success turns that appointment's status, and nothing else of it or of
\* any other appointment, to Completed and in the same step leaves exactly
\* one Treatment for it, carrying the submitted diagnosis and the visit
\* metadata; every other step of a completion request changes neither the
\* appointments nor the treatments.
C12_CompleteAtomic ==
  [][\A w \in Workers :
       LET r == req[w]
           n == req'[w]
       IN  (n.kind = "complete" /\ n # r) =>
             IF n.pc = "done" /\ n.out = "completed"
             THEN /\ r.pc = "commit"
                  /\ HasRow(appointments, r.id)
                  /\ LET a == RowOf(appointments, r.id)
                     IN  appointments' =
                           (appointments \ {a})
                             \cup {[a EXCEPT !.status = COMPLETED]}
                  /\ {t \in treatments' : t.appointment_id # r.id}
                       = {t \in treatments : t.appointment_id # r.id}
                  /\ {<< t.visit_type, t.diagnosis >> :
                        t \in {u \in treatments' : u.appointment_id = r.id}}
                       = {<< "In-person", r.diagnosis >>}
             ELSE /\ appointments' = appointments
                  /\ treatments' = treatments]_vars

\* A completion has committed: the appointment is Completed and carries its
\* Treatment.
C12_Witness ==
  \E w \in Workers :
    /\ req[w].kind = "complete"
    /\ req[w].pc = "done"
    /\ req[w].out = "completed"
    /\ \E a \in appointments : a.id = req[w].id /\ a.status = COMPLETED
    /\ \E t \in treatments :
         t.appointment_id = req[w].id /\ t.diagnosis = req[w].diagnosis

\* C13. Complete validates before it writes: no Treatment ever carries an
\* empty or whitespace-only diagnosis; a completion request by the doctor of
\* a Booked appointment whose diagnosis strips to the empty string ends with
\* the validation error, one on an appointment that is not Booked ends with
\* invalid_state, and neither step changes an appointment or a Treatment.
C13_CompleteValidation ==
  /\ [](\A t \in treatments : t.diagnosis \notin {"", " "})
  /\ [][\A w \in Workers :
         LET r == req[w]
             n == req'[w]
         IN  (r.pc = "idle" /\ n.kind = "complete") =>
               LET a == RowOf(appointments, n.id)
               IN  /\ appointments' = appointments
                   /\ treatments' = treatments
                   /\ (a.doctor_id = n.caller /\ a.status # BOOKED)
                        => (n.pc = "done" /\ n.out = "invalid_state")
                   /\ (a.doctor_id = n.caller /\ a.status = BOOKED
                       /\ n.diagnosis \in {"", " "})
                        => (n.pc = "done" /\ n.out = "validation")]_vars

\* A completion of a Booked appointment was refused for its empty diagnosis.
C13_Witness ==
  \E w \in Workers :
    /\ req[w].kind = "complete"
    /\ req[w].pc = "done"
    /\ req[w].out = "validation"
    /\ req[w].diagnosis = ""
    /\ \E a \in appointments : a.id = req[w].id /\ a.status = BOOKED
    /\ treatments = {}

\* C14. Completion attaches exactly one Treatment: in every reachable state,
\* two completions of the same appointment racing each other included, no
\* appointment has more than one Treatment row; and a completion requested
\* for an appointment that is already Completed is refused at its
\* precondition and leaves the treatments as they are.
C14_ExactlyOneTreatment ==
  /\ [](\A t \in treatments : \A u \in treatments :
          t.appointment_id = u.appointment_id => t = u)
  /\ [][\A w \in Workers :
         (/\ req[w].pc = "idle"
          /\ req'[w].kind = "complete"
          /\ RowOf(appointments, req'[w].id).status = COMPLETED)
           => /\ req'[w].pc = "done"
              /\ req'[w].out \in {"denied", "invalid_state"}
              /\ treatments' = treatments]_vars

\* A second completion of a Completed appointment was refused and the one
\* Treatment of the appointment is still there.
C14_Witness ==
  \E w \in Workers :
    /\ req[w].kind = "complete"
    /\ req[w].pc = "done"
    /\ req[w].out = "invalid_state"
    /\ \E a \in appointments : a.id = req[w].id /\ a.status = COMPLETED
    /\ Cardinality({t \in treatments : t.appointment_id = req[w].id}) = 1

\* C15. Treatment is 1:1 with a Completed appointment: in every reachable
\* state every Completed appointment has exactly one Treatment and every
\* Treatment belongs to an appointment that exists and is Completed.
C15_TreatmentOneToOne ==
  /\ \A a \in appointments :
       a.status = COMPLETED
         => Cardinality({t \in treatments : t.appointment_id = a.id}) = 1
  /\ \A t \in treatments :
       \E a \in appointments :
         a.id = t.appointment_id /\ a.status = COMPLETED

\* The state after appointment 1 was booked and completed with its Treatment.
InitRecords ==
  /\ today = 1
  /\ availability = [d \in Doctors |-> _generate_default_availability_schedule]
  /\ appointments =
       {[id |-> 1, patient_id |-> "p1", doctor_id |-> "d1", date |-> 1,
         time |-> strptime("09:00"), status |-> COMPLETED, notes |-> ""]}
  /\ treatments =
       _create_or_update_treatment_record({}, 1, "Flu")
  /\ req = [w \in Workers |-> Idle]
  /\ started = 0

SpecRecords == InitRecords /\ [][Next]_vars

\* C16. A Completed appointment is a permanent record: appointment 1, which
\* is Completed with its Treatment from the start, is still stored with a
\* Treatment after any sequence of operations, administrative status updates
\* followed by an administrative delete included.
C16_PermanentRecord ==
  /\ HasRow(appointments, 1)
  /\ \E t \in treatments : t.appointment_id = 1

\* C17. The administrative delete is gated by status # Completed: a delete
\* requested for a Completed appointment is refused, a step of a delete
\* request that does not end in success changes no appointment and no
\* Treatment, and a successful one removes an appointment that is not
\* Completed together with every Treatment attached to it, nothing else,
\* after which no row holds the slot of the removed appointment.
C17_HardDelete ==
  [][\A w \in Workers :
       LET r == req[w]
           n == req'[w]
       IN  (n.kind = "remove" /\ n # r) =>
             IF n.pc = "done" /\ n.out = "deleted"
             THEN HasRow(appointments, r.id) =>
                    LET a == RowOf(appointments, r.id)
                    IN  /\ a.status # COMPLETED
                        /\ appointments' = appointments \ {a}
                        /\ treatments' =
                             {t \in treatments : t.appointment_id # r.id}
                        /\ \A b \in appointments' :
                             << b.doctor_id, b.date, b.time >>
                               # << a.doctor_id, a.date, a.time >>
             ELSE /\ appointments' = appointments
                  /\ treatments' = treatments
                  /\ (/\ r.pc = "idle"
                      /\ RowOf(appointments, n.id).status = COMPLETED)
                       => (n.pc = "done" /\ n.out = "delete_refused")]_vars

\* getAvailability: doctor.physician_profile.availability or {}
view_doctor_availability(doctor) ==
  IF DOMAIN availability[doctor] = {} THEN << >> ELSE availability[doctor]

\* C18. setAvailability replaces the whole map: the step that answers a
\* setAvailability request as saved leaves the doctor's availability read
\* back equal to the submitted map, with no key or slot of the previous
\* map surviving, and the maps of the other doctors unchanged; a doctor
\* with nothing declared reads back as the empty map.
C18_SetAvailabilityReplaces ==
  /\ [](\A d \in Doctors :
          DOMAIN availability[d] = {} => view_doctor_availability(d) = << >>)
  /\ [][\A w \in Workers :
         (/\ req'[w].kind = "set_availability"
          /\ req'[w].pc = "done"
          /\ req[w].pc = "commit")
           => /\ req'[w].out = "saved"
              /\ view_doctor_availability(req[w].doctor)' = req[w].form
              /\ \A d \in Doctors \ {req[w].doctor} :
                   availability'[d] = availability[d]]_vars

\* C19. The exclusion exempts only the appointment's own row: the conflict
\* step of a Reschedule of X ends with slot_taken, nothing changed, exactly
\* when an appointment other than X is Booked at the target slot, and lets
\* the request through otherwise, X itself sitting at the target included;
\* and the commit of a Reschedule of X to the slot X holds succeeds and
\* leaves every appointment as it is.
C19_ExclusionOwnRowOnly ==
  [][\A w \in Workers :
       LET r == req[w]
           n == req'[w]
           other == \E y \in appointments :
                      y.id # r.id /\ y.status = BOOKED /\ AtTarget(y, r)
       IN  (r.kind = "reschedule" /\ n # r) =>
             /\ (r.pc = "check" /\ other)
                  => /\ n.pc = "done" /\ n.out = "slot_taken"
                     /\ appointments' = appointments
             /\ (r.pc = "check" /\ ~ other) => n.pc = "commit"
             /\ (/\ r.pc = "commit"
                 /\ \E x \in appointments : x.id = r.id /\ AtTarget(x, r))
                  => /\ n.pc = "done" /\ n.out = "rescheduled"
                     /\ appointments' = appointments]_vars

\* A Reschedule of a Booked appointment to the slot it holds has succeeded.
C19_Witness ==
  \E w \in Workers :
    /\ req[w].kind = "reschedule"
    /\ req[w].pc = "done"
    /\ req[w].out = "rescheduled"
    /\ << req[w].snap.date, req[w].snap.time >>
         = << TargetDate(req[w]), TargetTime(req[w]) >>
    /\ \E x \in appointments :
         x.id = req[w].id /\ x.status = BOOKED /\ AtTarget(x, req[w])

\* C20. Create checks the declared availability first and the slot second:
\* a request for a slot that is not declared ends with not_declared, also
\* when the slot is Booked; one for a declared slot that holds a Booked
\* appointment ends with slot_taken; a successful one inserts exactly one
\* new appointment, Booked, of the caller, with the requested doctor, date
\* and time; every other step of a Create changes no appointment; and no
\* step of a Create changes a Treatment or the availability.
C20_Create ==
  [][\A w \in Workers :
       LET r == req[w]
           n == req'[w]
       IN  (n.kind \in Creates /\ n # r) =>
             /\ treatments' = treatments
             /\ availability' = availability
             /\ (r.pc = "idle")
                  => IF isDeclaredAvailable(n.doctor, n.date, n.time)
                     THEN n.pc = "check"
                     ELSE n.pc = "done" /\ n.out = "not_declared"
             /\ (r.pc = "check")
                  => IF isSlotFree(appointments, r.doctor, TargetDate(r),
                                   TargetTime(r), 0)
                     THEN n.pc = "commit"
                     ELSE n.pc = "done" /\ n.out = "slot_taken"
             /\ IF n.pc = "done" /\ n.out = "booked"
                THEN /\ r.pc = "commit"
                     /\ \E a \in appointments' :
                          /\ a.id \notin {b.id : b \in appointments}
                          /\ appointments' = appointments \cup {a}
                          /\ a.status = BOOKED
                          /\ a.patient_id = r.caller
                          /\ AtTarget(a, r)
                ELSE appointments' = appointments]_vars

\* A booking of a slot that is Booked and no longer declared was refused as
\* not declared.
C20_Witness ==
  \E w \in Workers :
    /\ req[w].kind \in Creates
    /\ req[w].pc = "done"
    /\ req[w].out = "not_declared"
    /\ \E a \in appointments : a.status = BOOKED /\ AtTarget(a, req[w])

\* =================================================== the availability horizon
\* date.today() moves on: midnight passes while no request is being served.
\* The calendar modelled ends with DateStrings.
midnight ==
  /\ \A w \in Workers : req[w].pc = "idle"
  /\ today + HorizonDays <= Len(DateStrings)
  /\ today' = today + 1
  /\ UNCHANGED << availability, appointments, treatments, req, started >>

\* The keys date.today() + range(7) of the availability builders.
HorizonKeys == {strftime(today + o) : o \in 0..(HorizonDays - 1)}

\* ------------------------------------------------ doctor: manage_availability
morning_slots == << "08:00", "09:00", "10:00", "11:00", "12:00" >>
evening_slots == << "16:00", "17:00", "18:00", "19:00", "20:00", "21:00" >>

\* doctor _extract_availability_from_form: form maps a day offset to the set
\* of block labels submitted under 'slots_<date>'.
doctor_extract_availability_from_form(form) ==
  [k \in HorizonKeys |->
     LET selected_slots == form[fromisoformat(k) - today]
         time_slots ==
           (IF "08:00-12:00" \in selected_slots THEN morning_slots ELSE << >>)
             \o (IF "16:00-21:00" \in selected_slots THEN evening_slots
                 ELSE << >>)
     IN  IF time_slots # << >> THEN sorted(time_slots) ELSE << >>]

\* /doctor/availability is registered without methods=, so the rule accepts
\* GET only: a POST is answered 405 by the routing, before the view function
\* and its _extract_availability_from_form run.  req.form is the map the
\* submission denotes.
manage_availability(w, doctor, method, form) ==
  /\ Ready(w)
  /\ req' = [req EXCEPT ![w] =
               [Idle EXCEPT !.pc = "done", !.kind = "manage_availability",
                            !.caller = doctor, !.doctor = doctor,
                            !.target = method,
                            !.form = doctor_extract_availability_from_form(form),
                            !.seen = availability[doctor],
                            !.out = IF method = "POST"
                                    THEN "method_not_allowed"
                                    ELSE "rendered"]]
  /\ started' = started + 1
  /\ UNCHANGED << today, availability, appointments, treatments >>

\* ------------------------------------------------- admin: add_new_physician
\* The required-fields test and the email lookup.
add_new_physician_load(w, doctor) ==
  /\ Ready(w)
  /\ req' = [req EXCEPT ![w] =
               IF doctor \in DOMAIN availability
               THEN [Idle EXCEPT !.pc = "done", !.kind = "add_physician",
                                 !.caller = "admin", !.doctor = doctor,
                                 !.out = "email_exists"]
               ELSE [Idle EXCEPT !.pc = "commit", !.kind = "add_physician",
                                 !.caller = "admin", !.doctor = doctor]]
  /\ started' = started + 1
  /\ UNCHANGED << today, availability, appointments, treatments >>

\* _create_physician_account flushes the INSERT of the user (the email is
\* unique), then the default schedule is generated and committed with the
\* profile.
add_new_physician_commit(w) ==
  /\ At(w, {"add_physician"}, "commit")
  /\ IF req[w].doctor \in DOMAIN availability
     THEN /\ availability' = availability
          /\ req' = Finish(w, "unhandled")
     ELSE /\ availability' =
               [d \in DOMAIN availability \cup {req[w].doctor} |->
                  IF d = req[w].doctor
                  THEN _generate_default_availability_schedule
                  ELSE availability[d]]
          /\ req' = Finish(w, "added")
  /\ UNCHANGED << today, appointments, treatments, started >>

\* ------------------------------------------------------------------ inputs
NewDoctors == {"d2"}
\* Dates are submitted as text, whatever the day of the submission: the
\* first two days of the calendar and its last day, at 09:00.
HorizonSlots ==
  {<< DateStrings[1], "09:00" >>, << DateStrings[2], "09:00" >>,
   << DateStrings[Len(DateStrings)], "09:00" >>}
\* Block selections of the doctor's form: nothing, and both blocks on the
\* first day with the morning block on the second.
BlockForms ==
  { [o \in 0..(HorizonDays - 1) |-> {}],
    [o \in 0..(HorizonDays - 1) |->
       IF o = 0 THEN {"08:00-12:00", "16:00-21:00"}
       ELSE IF o = 1 THEN {"08:00-12:00"} ELSE {}] }

NextHorizon ==
  \/ midnight
  \/ \E w \in Workers :
       \/ \E p \in Patients, d \in Doctors, sl \in HorizonSlots :
            create_appointment_validate(w, "POST", p, d, sl[1], sl[2], "")
       \/ create_appointment_check(w)
       \/ create_appointment_commit(w)
       \/ \E p \in Patients, sl \in HorizonSlots :
            reschedule_client_appointment_load(w, p, 1, sl[1], sl[2])
       \/ reschedule_client_appointment_validate(w)
       \/ reschedule_client_appointment_check(w)
       \/ reschedule_client_appointment_commit(w)
       \/ \E d \in DOMAIN availability, f \in AdminForms :
            manage_physician_availability_load(w, d, f)
       \/ manage_physician_availability_commit(w)
       \/ \E d \in Doctors, m \in {"GET", "POST"}, f \in BlockForms :
            manage_availability(w, d, m, f)
       \/ \E d \in NewDoctors : add_new_physician_load(w, d)
       \/ add_new_physician_commit(w)
       \/ respond(w)

SpecHorizon == Init /\ [][NextHorizon]_vars

\* C21. Stale keys are unavailable: a Create or Reschedule that succeeds
\* (answered booked or rescheduled) is for a date within today .. today+6;
\* a date before today, or otherwise outside the horizon, fails even when
\* the stored map still lists the requested label under that date.
C21_StaleKeysUnavailable ==
  [][\A w \in Workers :
       (/\ req[w].kind \in Creates \cup {"reschedule"}
        /\ req[w].pc = "commit"
        /\ req'[w].out \in {"booked", "rescheduled"})
         => TargetDate(req[w]) \in today..(today + HorizonDays - 1)]_vars

SetAvailabilityAnswered(w) ==
  /\ req[w].pc # "done"
  /\ req'[w].pc = "done"
  /\ \/ req'[w].kind = "set_availability"
     \/ req'[w].kind = "manage_availability" /\ req'[w].target = "POST"

\* C23. Availability writes are last-writer-wins whole-map replacements:
\* under any interleaving of setAvailability requests for one provider, by
\* the provider or an administrator, the request answered last leaves the
\* stored map equal to the map it submitted, as a whole and not merged with
\* another; and a Create is decided against the map stored at the moment of
\* its availability check, in full.
C23_LastWriterWins ==
  [][\A w \in Workers :
       /\ SetAvailabilityAnswered(w)
            => availability'[req'[w].doctor] = req'[w].form
       /\ (req[w].pc = "idle" /\ req'[w].kind \in Creates)
            => (req'[w].pc = "check")
                 = isDeclaredAvailable(req'[w].doctor, req'[w].date,
                                       req'[w].time)]_vars

\* C24. The provider can call setAvailability: a provider's submission of
\* the 7-day selection is accepted and the stored map of that provider is
\* the submitted map afterwards.
C24_ProviderSetAvailability ==
  [][\A w \in Workers :
       (/\ req[w].pc = "idle"
        /\ req'[w].kind = "manage_availability"
        /\ req'[w].target = "POST")
         => /\ req'[w].out = "saved"
            /\ availability'[req'[w].doctor] = req'[w].form]_vars

\* Ascending order of the labels of a day's list.
IsAscending(slots) ==
  \A i, j \in 1..Len(slots) :
    i < j => LabelRank(slots[i]) <= LabelRank(slots[j])

\* C25. A day's slot list is always stored sorted ascending: every list of
\* every stored map is ascending, whether the map was generated by default,
\* submitted by an administrator in arbitrary order, or built from the
\* provider's block selection (morning, evening or both); so is every list
\* of a map about to be written.
C25_SlotListsSorted ==
  /\ \A d \in DOMAIN availability : \A k \in DOMAIN availability[d] :
       IsAscending(availability[d][k])
  /\ \A w \in Workers :
       req[w].kind \in {"set_availability", "manage_availability"}
         => \A k \in DOMAIN req[w].form : IsAscending(req[w].form[k])
  /\ \A f \in BlockForms :
       LET m == doctor_extract_availability_from_form(f)
       IN  \A k \in DOMAIN m : IsAscending(m[k])
  /\ \A k \in DOMAIN _generate_default_availability_schedule :
       IsAscending(_generate_default_availability_schedule[k])

\* An administrator's submission with 10:00 before 09:00 is stored for a
\* doctor, another doctor holds the default map, and a provider's selection
\* of both blocks is at hand.
C25_Witness ==
  /\ \E d \in DOMAIN availability : \E k \in DOMAIN availability[d] :
       availability[d][k] = << "09:00", "10:00" >>
  /\ \E d \in DOMAIN availability : \E k \in DOMAIN availability[d] :
       Len(availability[d][k]) = 4
  /\ \E w \in Workers :
       /\ req[w].kind = "manage_availability"
       /\ \E k \in DOMAIN req[w].form : Len(req[w].form[k]) = 11

\* ------------------------------------------- patient: availability listings
\* _build_doctor_availability_data, for one doctor: whether the doctor is
\* appended to the listing, and the days listed with their slots.
build_lists_empty_days(doctor_availability) ==
  LET days == HorizonKeys \cap DOMAIN doctor_availability
  IN  [listed |-> days # {},
       availability |-> [k \in days |-> doctor_availability[k]]]

_build_doctor_availability_data(doctor_availability) ==
  LET days == IF DOMAIN doctor_availability = {} THEN {}
              ELSE {k \in HorizonKeys \cap DOMAIN doctor_availability :
                      doctor_availability[k] # << >>}
  IN  [listed |-> days # {},
       availability |-> [k \in days |-> doctor_availability[k]]]

\* _filter_doctors_by_date, for one doctor: the slots offered on target_date,
\* or the empty list when the doctor is left out.
_filter_doctors_by_date(doctor_availability, target_date) ==
  LET date_string == strftime(target_date)
  IN  IF /\ DOMAIN doctor_availability # {}
         /\ date_string \in DOMAIN doctor_availability
         /\ doctor_availability[date_string] # << >>
      THEN doctor_availability[date_string]
      ELSE << >>

\* _find_next_available_date: the first day of today .. today+6 with slots,
\* 0 for None.
_find_next_available_date(doctor_availability) ==
  LET days == {c \in today..(today + HorizonDays - 1) :
                 /\ DOMAIN doctor_availability # {}
                 /\ strftime(c) \in DOMAIN doctor_availability
                 /\ doctor_availability[strftime(c)] # << >>}
  IN  IF days = {} THEN 0
      ELSE CHOOSE c \in days : \A e \in days : c <= e

\* The map without the key, and the map with the key bound to the empty list.
WithoutKey(m, k) == [j \in DOMAIN m \ {k} |-> m[j]]
WithEmptyList(m, k) == [j \in DOMAIN m \cup {k} |-> IF j = k THEN << >> ELSE m[j]]

\* The date key offers nothing in the doctor's stored map.
NoSlots(d, k) ==
  k \notin DOMAIN availability[d] \/ availability[d][k] = << >>

\* C26. An absent date key and a key bound to the empty list are equivalent
\* for every consumer.  Whichever of the two holds for a date of a stored
\* map, isDeclaredAvailable and the availability check are false for every
\* label on it and the listings leave the date out; replacing one by the
\* other in a stored map changes no listing; and the availability check of
\* a Create or Reschedule for such a date rejects the request with nothing
\* changed.
C26_AbsentEqualsEmpty ==
  /\ [](\A d \in DOMAIN availability :
          \A i \in 1..Len(DateStrings) :
            LET k == DateStrings[i]
                m == availability[d]
                absent == WithoutKey(m, k)
                empty == WithEmptyList(m, k)
            IN  /\ _build_doctor_availability_data(absent)
                     = _build_doctor_availability_data(empty)
                /\ _find_next_available_date(absent)
                     = _find_next_available_date(empty)
                /\ \A c \in 1..Len(DateStrings) :
                     _filter_doctors_by_date(absent, c)
                       = _filter_doctors_by_date(empty, c)
                /\ NoSlots(d, k)
                     => /\ \A j \in 1..Len(TimeLabels) :
                             /\ ~ isDeclaredAvailable(d, k, TimeLabels[j])
                             /\ ~ _validate_doctor_availability(
                                    d, k, TimeLabels[j])
                        /\ k \notin DOMAIN
                             _build_doctor_availability_data(m).availability
                        /\ _filter_doctors_by_date(m, i) = << >>
                        /\ _find_next_available_date(m) # i)
  /\ [][\A w \in Workers :
          (/\ \/ req[w].pc = "idle" /\ req'[w].kind \in Creates
              \/ /\ req[w].kind = "reschedule" /\ req[w].pc = "validate"
                 /\ req'[w].pc # "validate"
           /\ NoSlots(req'[w].doctor, req'[w].date))
            => /\ req'[w].pc = "done"
               /\ req'[w].out = "not_declared"
               /\ appointments' = appointments
               /\ treatments' = treatments
               /\ availability' = availability]_vars

\* A Create for a date whose key is absent from the doctor's map has been
\* rejected, while another date of the same map is bound to the empty list.
C26_Witness ==
  \E w \in Workers :
    /\ req[w].kind \in Creates /\ req[w].pc = "done"
    /\ req[w].out = "not_declared"
    /\ req[w].date \notin DOMAIN availability[req[w].doctor]
    /\ \E k \in DOMAIN availability[req[w].doctor] :
         availability[req[w].doctor][k] = << >>

\* C27. The horizon is the next 7 calendar days from today at the moment of
\* generation: every map written, by default generation for a new provider
\* or by a setAvailability submission, has exactly the 7 keys today ..
\* today+6 of the day of the write, a day with nothing selected being
\* present with the empty list, and the default map binds each of them to
\* 09:00, 10:00, 14:00, 15:00; the provider's builder yields the same keys.
C27_HorizonAtGeneration ==
  /\ [](/\ Cardinality(HorizonKeys) = 7
        /\ HorizonKeys = {strftime(c) : c \in today..(today + 6)}
        /\ _generate_default_availability_schedule
             = [k \in HorizonKeys |-> << "09:00", "10:00", "14:00", "15:00" >>]
        /\ \A f \in AdminForms :
             LET m == admin_extract_availability_from_form(f)
             IN  /\ DOMAIN m = HorizonKeys
                 /\ \A o \in 0..6 : f[o] = << >> => m[strftime(today + o)] = << >>
        /\ \A f \in BlockForms :
             LET m == doctor_extract_availability_from_form(f)
             IN  /\ DOMAIN m = HorizonKeys
                 /\ \A o \in 0..6 : f[o] = {} => m[strftime(today + o)] = << >>)
  /\ [][\A d \in DOMAIN availability' :
          /\ d \notin DOMAIN availability
               => availability'[d]
                    = [k \in HorizonKeys |->
                         << "09:00", "10:00", "14:00", "15:00" >>]
          /\ (d \in DOMAIN availability /\ availability'[d] # availability[d])
               => /\ DOMAIN availability'[d] = HorizonKeys
                  /\ \E w \in Workers :
                       /\ req[w].kind = "set_availability"
                       /\ availability'[d] = req[w].form]_vars

\* The day after the first map was generated, an administrator has rewritten
\* d1's map with days left empty and a new provider has been given the
\* default map: both have the keys of the new day's horizon.
C27_Witness ==
  /\ today = 2
  /\ DOMAIN availability = {"d1", "d2"}
  /\ DOMAIN availability["d1"] = HorizonKeys
  /\ DOMAIN availability["d2"] = HorizonKeys
  /\ \E k \in HorizonKeys : availability["d1"][k] = << >>

\* ============================================= several patients and doctors
\* The users who send requests: current_user.id of the patient and of the
\* doctor blueprint.
CallerPatients == {"p1", "p2"}
CallerDoctors == {"d1", "d2"}
CallerSlots == {<< strftime(today), "09:00" >>, << strftime(today), "10:00" >>}

\* Appointment 1 has been booked by p2 with d1.
InitCallers ==
  /\ today = 1
  /\ availability = [d \in Doctors |-> _generate_default_availability_schedule]
  /\ appointments = {[id |-> 1, patient_id |-> "p2", doctor_id |-> "d1",
                      date |-> today, time |-> strptime("09:00"),
                      status |-> BOOKED, notes |-> ""]}
  /\ treatments = {}
  /\ req = [w \in Workers |-> Idle]
  /\ started = 0

\* The patient and the doctor blueprint.
NextParties ==
  \E w \in Workers :
    \/ \E p \in CallerPatients, d \in Doctors, sl \in CallerSlots :
         create_appointment_validate(w, "POST", p, d, sl[1], sl[2], "")
    \/ create_appointment_check(w)
    \/ create_appointment_commit(w)
    \/ \E p \in CallerPatients, id \in AppointmentIds, sl \in CallerSlots :
         reschedule_client_appointment_load(w, p, id, sl[1], sl[2])
    \/ reschedule_client_appointment_validate(w)
    \/ reschedule_client_appointment_check(w)
    \/ reschedule_client_appointment_commit(w)
    \/ \E p \in CallerPatients, id \in AppointmentIds :
         cancel_client_appointment_load(w, p, id)
    \/ \E d \in CallerDoctors, id \in AppointmentIds :
         cancel_physician_appointment_load(w, d, id)
    \/ cancel_commit(w)
    \/ \E d \in CallerDoctors, id \in AppointmentIds :
         mark_appointment_completed_load(w, d, id, "Flu")
    \/ mark_appointment_completed_commit(w)
    \/ respond(w)

SpecParties == InitCallers /\ [][NextParties]_vars

\* The same with the administrator's delete.
NextCallers ==
  \/ NextParties
  \/ \E w \in Workers :
       \/ \E id \in AppointmentIds : remove_appointment_load(w, id)
       \/ remove_appointment_delete(w)
       \/ remove_appointment_commit(w)

SpecCallers == InitCallers /\ [][NextCallers]_vars

\* The column of an appointment that the blueprint of a request compares
\* with current_user.id.
OwnerFor(a, kind) ==
  IF kind \in {"reschedule", "cancel_client"} THEN a.patient_id
  ELSE a.doctor_id

\* C28. Caller-scoped mutation: a Reschedule or Cancel sent by a patient
\* changes an appointment only if its patientId is the caller, a Complete or
\* Cancel sent by a provider only if its providerId is the caller, and a
\* request for an appointment of somebody else is rejected with every
\* appointment and Treatment unchanged.
C28_CallerScoped ==
  [][\A w \in Workers :
       LET n == req'[w]
           kinds == {"reschedule", "cancel_client", "cancel_physician",
                     "complete"}
       IN  /\ (req[w].pc = "idle" /\ n.kind \in kinds
               /\ OwnerFor(RowOf(appointments, n.id), n.kind) # n.caller)
                => /\ n.pc = "done" /\ n.out = "denied"
                   /\ appointments' = appointments
                   /\ treatments' = treatments
           /\ (req[w].kind \in kinds /\ req[w].pc # "done" /\ n.pc = "done")
                => /\ \A a \in appointments \ appointments' :
                        OwnerFor(a, n.kind) = n.caller
                   /\ treatments' # treatments
                        => \E a \in appointments :
                             /\ a.id = n.id
                             /\ OwnerFor(a, n.kind) = n.caller]_vars

\* C29. With patient and provider operations only, exactly one of a Cancel
\* and a Complete racing on the same Booked appointment takes effect: an
\* appointment that is Cancelled has no Treatment and one that is Completed
\* has exactly one.
C29_CancelOrComplete ==
  \A a \in appointments :
    LET attached == {t \in treatments : t.appointment_id = a.id}
    IN  /\ a.status = CANCELLED => attached = {}
        /\ a.status = COMPLETED => Cardinality(attached) = 1

\* The appointment's slot is listed in its doctor's stored map.
SlotDeclared(a) ==
  \E i \in 1..Len(TimeLabels) :
    /\ strptime(TimeLabels[i]) = a.time
    /\ isDeclaredAvailable(a.doctor_id, strftime(a.date), TimeLabels[i])

\* C30. setAvailability leaves every appointment and every Treatment
\* unchanged.  An appointment Booked in a slot that is no longer declared
\* stays Booked at its date and time; isSlotFree is false for its slot and
\* the conflict check of a Create for that slot answers slot_taken; and a
\* Cancel or Complete of it by its patient or doctor goes through as for
\* any Booked appointment.
C30_SetAvailabilityFrame ==
  /\ [](\A a \in appointments :
          a.status = BOOKED
            => /\ ~ isSlotFree(appointments, a.doctor_id, a.date, a.time, 0)
               /\ ~ check_time_slot_availability(a.doctor_id, a.date,
                                                 a.time, 0))
  /\ [][\A w \in Workers :
          /\ (/\ req'[w] # req[w]
              /\ {req[w].kind, req'[w].kind}
                   \cap {"set_availability", "manage_availability"} # {})
               => (appointments' = appointments /\ treatments' = treatments)
          /\ (/\ req[w].kind \in Creates /\ req[w].pc = "check"
              /\ req'[w].pc # "check"
              /\ \E a \in appointments :
                   /\ a.status = BOOKED /\ AtTarget(a, req[w])
                   /\ ~ SlotDeclared(a))
               => (req'[w].out = "slot_taken"
                   /\ appointments' = appointments)
          /\ (/\ req[w].pc = "idle"
              /\ req'[w].kind \in Cancels \cup {"complete"}
              /\ req'[w].diagnosis # ""
              /\ LET a == RowOf(appointments, req'[w].id)
                 IN  /\ a.status = BOOKED
                     /\ ~ SlotDeclared(a)
                     /\ req'[w].caller = IF req'[w].kind = "cancel_client"
                                         THEN a.patient_id ELSE a.doctor_id)
               => req'[w].pc = "commit"
          /\ (/\ req[w].kind \in Cancels \cup {"complete"}
              /\ req[w].pc = "commit" /\ req'[w].pc = "done"
              /\ HasRow(appointments, req[w].id)
              /\ ~ SlotDeclared(RowOf(appointments, req[w].id)))
               => LET a == RowOf(appointments, req[w].id)
                  IN  /\ [a EXCEPT !.status = req[w].target] \in appointments'
                      /\ req'[w].out \in {"cancelled", "completed"}]_vars

\* An appointment whose slot an administrator has removed from the doctor's
\* map has just been completed, its Treatment written.
C30_Witness ==
  \E w \in Workers :
    /\ req[w].kind = "complete" /\ req[w].pc = "done"
    /\ req[w].out = "completed"
    /\ \E a \in appointments :
         /\ a.id = req[w].id /\ a.status = COMPLETED
         /\ ~ SlotDeclared(a)
         /\ \E t \in treatments : t.appointment_id = a.id

====
